---- MODULE Spec2Model ----
\* A model of src/scraper.py: one invocation of the scraper, from the call of
\* scrape_ozon_product in __main__ to the process exit.  The browser, the page
\* and its DOM are the environment: every browser operation may succeed or
\* raise, and the page's content is drawn from small sets.
EXTENDS Integers, Sequences, FiniteSets, TLC

\* ------------------------------------------------------------------ bounds
\* The whole-run specification: variants per page, images per description.
MainVariants == 1
MainDescImages == 1
\* The image-extraction specification.
MaxVariants == 2
MaxDescImages == 2
MaxDescLen == 5
MaxOffers == 2
MaxTextLen == 7

\* ------------------------------------------------------- values and helpers
\* Python's None, as the value dict.get returns for a missing key.
None == "None"
NL == "\n"
SP == " "
\* The boilerplate "add to comparison" line of line 111 (its Cyrillic text in
\* transliteration); it is one token of the text.
Marker == "Dobavit k sravneniyu"

\* All sequences over S of length 0..n.
BoundedSeq(S, n) == UNION {[1..k -> S] : k \in 0..n}

\* dict.get(k): the value, or None for a missing key.
Get(d, k) == IF k \in DOMAIN d THEN d[k] ELSE None

\* d[k] = v on a dict modelled as a function from its keys.
Put(d, k, v) == [x \in (DOMAIN d) \cup {k} |-> IF x = k THEN v ELSE d[x]]

\* bool(x) of a str or None: the empty string and None are false.
Truthy(s) == s # "" /\ s # None

\* bool(d) of a dict: false when it has no key.
DictTruthy(d) == DOMAIN d # {}

\* ------------------------------------------------ str.replace("\n\n", " ")
\* A mutation: only the first occurrence is replaced (str.replace(.., .., 1)).
RECURSIVE ReplaceFirstOnly(_)
ReplaceFirstOnly(s) ==
    IF Len(s) < 2 THEN s
    ELSE IF s[1] = NL /\ s[2] = NL THEN <<SP>> \o SubSeq(s, 3, Len(s))
    ELSE <<s[1]>> \o ReplaceFirstOnly(Tail(s))

\* Python's str.replace scans left to right and replaces non-overlapping
\* occurrences: after a match the scan resumes behind the match.
RECURSIVE Replace(_)
Replace(s) ==
    IF Len(s) < 2 THEN s
    ELSE IF s[1] = NL /\ s[2] = NL THEN <<SP>> \o Replace(SubSeq(s, 3, Len(s)))
    ELSE <<s[1]>> \o Replace(Tail(s))

\* ------------------------------------------------------------ offers choice
EmptyDict == [k \in {} |-> None]
\* json values of the offers field, tagged by their Python type.
OffersList(items) == [kind |-> "list", items |-> items]
OffersDict(obj) == [kind |-> "dict", obj |-> obj]
OffersOther == [kind |-> "other"]
\* A list element: an offer object, or a value that is no object.
Obj(d) == [kind |-> "obj", d |-> d]
NonObj == [kind |-> "scalar"]
\* No offer chosen: neither branch of lines 86-91 is taken.
NoOffer == [kind |-> "none"]

\* A mutation: the last element of the list is used instead of element 0.
SelectOfferLast(offers) ==
    IF offers.kind = "list" /\ offers.items # <<>> THEN offers.items[Len(offers.items)]
    ELSE IF offers.kind = "dict" THEN Obj(offers.obj)
    ELSE NoOffer

\* The offer the price is read from: offers[0] of a non-empty list, the object
\* itself when offers is a dict, none otherwise.
SelectOffer(offers) ==
    IF offers.kind = "list" /\ offers.items # <<>> THEN offers.items[1]
    ELSE IF offers.kind = "dict" THEN Obj(offers.obj)
    ELSE NoOffer

\* ------------------------------------------------- characteristics parsing
IsSpace(c) == c = SP \/ c = NL

\* str.strip(): leading and trailing whitespace removed.
RECURSIVE LStrip(_)
LStrip(s) == IF s # <<>> /\ IsSpace(s[1]) THEN LStrip(Tail(s)) ELSE s
RECURSIVE RStrip(_)
RStrip(s) ==
    IF s # <<>> /\ IsSpace(s[Len(s)]) THEN RStrip(SubSeq(s, 1, Len(s) - 1)) ELSE s
Strip(s) == RStrip(LStrip(s))

\* str.split('\n'): the pieces between line breaks; "" splits to [""].
RECURSIVE SplitAcc(_, _)
SplitAcc(s, cur) ==
    IF s = <<>> THEN <<cur>>
    ELSE IF s[1] = NL THEN <<cur>> \o SplitAcc(Tail(s), <<>>)
    ELSE SplitAcc(Tail(s), Append(cur, s[1]))
Split(s) == SplitAcc(s, <<>>)

IsMarkerLine(line) == Strip(line) = <<Marker>>

\* A mutation: the marker line itself is kept (start_index = i).
StartIndexKeepMarker(ls) ==
    IF \E k \in 1..Len(ls) : IsMarkerLine(ls[k])
    THEN (CHOOSE k \in 1..Len(ls) :
            IsMarkerLine(ls[k]) /\ \A j \in 1..(k - 1) : ~IsMarkerLine(ls[j])) - 1
    ELSE 0

\* start_index of the loop at lines 109-113 (0-based): one past the first
\* marker line, 0 when no line is the marker.
StartIndex(ls) ==
    IF \E k \in 1..Len(ls) : IsMarkerLine(ls[k])
    THEN CHOOSE k \in 1..Len(ls) :
            IsMarkerLine(ls[k]) /\ \A j \in 1..(k - 1) : ~IsMarkerLine(ls[j])
    ELSE 0

\* The iterator loop at lines 118-126: two lines per pair; a last line with no
\* value raises StopIteration, which is caught and ends the loop.
RECURSIVE Pairs(_)
Pairs(r) ==
    IF Len(r) < 2 THEN <<>>
    ELSE <<[name |-> Strip(r[1]), value |-> Strip(r[2])]>> \o Pairs(SubSeq(r, 3, Len(r)))

\* Whether the loop ended on an unpaired line (the warning of line 126).
HasDangling(r) == Len(r) % 2 = 1

\* ------------------------------------------------- list(dict.fromkeys(..))
\* A mutation: the list is returned as collected, duplicates included.
DedupNone(s) == s

\* dict.fromkeys keeps the first occurrence of every key, in insertion order.
RECURSIVE DedupAcc(_, _)
DedupAcc(s, acc) ==
    IF s = <<>> THEN acc
    ELSE IF \E k \in 1..Len(acc) : acc[k] = s[1] THEN DedupAcc(Tail(s), acc)
    ELSE DedupAcc(Tail(s), Append(acc, s[1]))
Dedup(s) == DedupAcc(s, <<>>)

\* ------------------------------------------------------------------- state
VARIABLES
    pc,                   \* the next statement of the run
    verbose,              \* args.verbose
    driver,               \* "None" before the launch, "live", "quit" after driver.quit()
    ops,                  \* the browser and timing operations issued so far, in order
    exc,                  \* the exception in flight (NoExc when none)
    script_tag,           \* soup.find("script", ld+json) of the page snapshot
    scraped_data,         \* the record being assembled
    characteristics_text, \* characteristics_section.text
    lines,                \* characteristics_text.strip().split('\n')
    variant_selectors,    \* the variants found; each is the src its click displays
    i,                    \* the loop index of line 150 (1-based)
    displayed,            \* the page's main image: -1 none, 0 initial, k that of variant k
    pending,              \* the variant whose clicked swap is not rendered yet (0 none)
    gallery_log,          \* what every finished loop iteration did
    description_images,   \* the src of every img read in the description region
    image_urls,           \* the list of line 137
    debug_file,           \* whether ozon_page_source_after_scroll.html was written
    data,                 \* what scrape_ozon_product returned to __main__
    stdout,
    stderr,
    exit_code             \* -1 while the process runs

vars == <<pc, verbose, driver, ops, exc, script_tag, scraped_data, characteristics_text,
          lines, variant_selectors, i, displayed, pending, gallery_log,
          description_images, image_urls, debug_file, data, stdout, stderr,
          exit_code>>

pageVars == <<script_tag, characteristics_text, lines, variant_selectors,
              description_images>>
loopVars == <<i, gallery_log, image_urls>>
domVars == <<displayed, pending>>
mainVars == <<data, stdout, exit_code, debug_file, verbose>>

NoExc == [type |-> "none", at |-> "none"]
Exception(type, at) == [type |-> type, at |-> at]
\* Exceptions that a browser, driver or file operation raises: faults of the
\* environment, as opposed to errors of the run's own data handling.
EnvFaults == {"WebDriverException", "TimeoutException", "NoSuchElementException",
              "OSError", "JSONDecodeError"}

Op(name) == [op |-> name, arg |-> 0]
OpOn(name, k) == [op |-> name, arg |-> k]

\* print(.., file=sys.stderr) under "if verbose".
Say(err, msg) == IF verbose THEN Append(err, msg) ELSE err

\* ------------------------------------------------------------- environment
InitialSrc == "main.jpg"
\* The src values of images; "" is an image with no src.
Srcs == {"a.jpg", "b.jpg", ""}

NoTag == [present |-> FALSE]
Malformed == [present |-> TRUE, valid |-> FALSE]
Tag(d) == [present |-> TRUE, valid |-> TRUE, data |-> d]

OfferObjs ==
    {EmptyDict} \cup {("price" :> p) : p \in {"100", "200"}}
    \cup {("priceCurrency" :> "RUB")}
    \cup {("price" :> p) @@ ("priceCurrency" :> "RUB") : p \in {"100", "200"}}
Items == {Obj(d) : d \in OfferObjs} \cup {NonObj}
WideOffers ==
    {OffersList(s) : s \in BoundedSeq(Items, MaxOffers)}
    \cup {OffersDict(d) : d \in OfferObjs} \cup {OffersOther}

DescChars == {"A", "B", NL, SP}
WideDescriptions == BoundedSeq(DescChars, MaxDescLen)

SampleDescription == <<"A", NL, NL, "B">>
SampleOffers == OffersList(<<Obj(("price" :> "100") @@ ("priceCurrency" :> "RUB"))>>)
\* The structured-data blocks of the whole-run specification: none, one that
\* is no JSON, a full one, and one lacking each field.
SampleScriptTags ==
    {NoTag, Malformed,
     Tag(("name" :> "N") @@ ("description" :> SampleDescription) @@ ("offers" :> SampleOffers)),
     Tag(("description" :> SampleDescription) @@ ("offers" :> SampleOffers)),
     Tag(("name" :> "N") @@ ("offers" :> SampleOffers)),
     Tag(("name" :> "N") @@ ("description" :> SampleDescription))}

\* Structured-data blocks with every description text up to MaxDescLen.
DescriptionTags == {Tag(("name" :> "N") @@ ("description" :> d)) : d \in WideDescriptions}
\* Structured-data blocks with every offers value, and with none.
OffersTags ==
    {Tag(("description" :> SampleDescription) @@ ("offers" :> o)) : o \in WideOffers}
    \cup {Tag(("description" :> SampleDescription))}

TextChars == {SP, NL, Marker, "x"}
WideTexts == BoundedSeq(TextChars, MaxTextLen)
SampleTexts ==
    {<<"Header", NL, Marker, NL, "Color", NL, "Red">>,
     <<"Color", NL, "Red", NL, "Weight">>}

\* -------------------------------------------------------------------- Init
Init ==
    /\ pc = "launch"
    /\ verbose \in BOOLEAN
    /\ driver = "None"
    /\ ops = <<>>
    /\ exc = NoExc
    /\ script_tag = NoTag
    /\ scraped_data = EmptyDict
    /\ characteristics_text = <<>>
    /\ lines = <<>>
    /\ variant_selectors = <<>>
    /\ i = 1
    /\ displayed = -1
    /\ pending = 0
    /\ gallery_log = <<>>
    /\ description_images = <<>>
    /\ image_urls = <<>>
    /\ debug_file = FALSE
    /\ data = EmptyDict
    /\ stdout = <<>>
    /\ stderr = <<>>
    /\ exit_code = -1

\* An exception that no handler inside the function catches: control goes to
\* the finally clause of line 194.
Raise(type, at) == exc' = Exception(type, at) /\ pc' = "finally"

\* ------------------------------------------------- session and page loading
\* Lines 25-40: the options are built and the browser is launched.
Launch ==
    /\ pc = "launch"
    /\ ops' = Append(ops, Op("launch"))
    /\ stderr' = Say(stderr, "Scraping page")
    /\ \/ driver' = "live" /\ pc' = "stealth" /\ exc' = exc
       \/ driver' = driver /\ Raise("WebDriverException", "launch")
    /\ UNCHANGED <<pageVars, loopVars, domVars, mainVars, scraped_data>>

\* Lines 42-48: stealth(driver, ...).
Stealth ==
    /\ pc = "stealth"
    /\ ops' = Append(ops, Op("stealth"))
    /\ \/ pc' = "get" /\ exc' = exc
       \/ Raise("WebDriverException", "stealth")
    /\ UNCHANGED <<pageVars, loopVars, domVars, mainVars, scraped_data, driver, stderr>>

\* Lines 50-52: driver.get(url).  The loaded page shows its initial main image,
\* or none yet.
Navigate ==
    /\ pc = "get"
    /\ ops' = Append(ops, Op("get"))
    /\ stderr' = Say(stderr, "Loading page")
    /\ \/ pc' = "sleep" /\ exc' = exc /\ displayed' \in {-1, 0}
       \/ Raise("WebDriverException", "get") /\ displayed' = displayed
    /\ UNCHANGED <<pageVars, loopVars, pending, mainVars, scraped_data, driver>>

\* Line 53: time.sleep(random.uniform(5.0, 8.0)).
Sleep ==
    /\ pc = "sleep"
    /\ ops' = Append(ops, Op("sleep"))
    /\ pc' = "scroll"
    /\ UNCHANGED <<pageVars, loopVars, domVars, mainVars, scraped_data, driver, stderr, exc>>

\* Lines 55-57: window.scrollTo(0, document.body.scrollHeight).
Scroll ==
    /\ pc = "scroll"
    /\ ops' = Append(ops, Op("scroll"))
    /\ stderr' = Say(stderr, "Scrolling")
    /\ \/ pc' = "wait_characteristics" /\ exc' = exc
       \/ Raise("WebDriverException", "scroll")
    /\ UNCHANGED <<pageVars, loopVars, domVars, mainVars, scraped_data, driver>>

\* Lines 59-67: the bounded wait for #section-characteristics; its timeout is
\* caught and only reported.
WaitCharacteristics ==
    /\ pc = "wait_characteristics"
    /\ ops' = Append(ops, Op("wait_characteristics"))
    /\ \/ stderr' = Say(Say(stderr, "Waiting for characteristics"), "Characteristics present")
       \/ stderr' = Say(Say(stderr, "Waiting for characteristics"), "Timed out waiting")
    /\ pc' = "page_source"
    /\ UNCHANGED <<pageVars, loopVars, domVars, mainVars, scraped_data, driver, exc>>

\* Lines 69-75: the page source is read and parsed; scraped_data = {}.
PageSource ==
    /\ pc = "page_source"
    /\ ops' = Append(ops, Op("page_source"))
    /\ stderr' = Say(stderr, "Page loaded")
    /\ \/ /\ script_tag' \in SampleScriptTags
          /\ pc' = "jsonld"
          /\ exc' = exc
       \/ Raise("WebDriverException", "page_source") /\ script_tag' = script_tag
    /\ scraped_data' = EmptyDict
    /\ UNCHANGED <<characteristics_text, lines, variant_selectors, description_images,
                   loopVars, domVars, mainVars, driver>>

\* ------------------------------------------------ structured-data extraction
\* Lines 78-91 on a script tag: the record after them and the exception they
\* raise.  json.loads raises on a block that is no JSON; None.replace raises
\* AttributeError when the block has no description (dict.get gives None);
\* offers[0].get raises AttributeError when element 0 is no object.
JsonLdResult(tag, sd) ==
    IF ~tag.present THEN [exc |-> NoExc, sd |-> sd]
    ELSE IF ~tag.valid THEN [exc |-> Exception("JSONDecodeError", "jsonld"), sd |-> sd]
    ELSE LET json_data == tag.data
             sd1 == Put(sd, "name", Get(json_data, "name"))
         IN  IF "description" \notin DOMAIN json_data
             THEN [exc |-> Exception("AttributeError", "jsonld"), sd |-> sd1]
             ELSE LET sd2 == Put(sd1, "description", Replace(json_data["description"]))
                      offers == IF "offers" \in DOMAIN json_data
                                THEN json_data["offers"] ELSE OffersList(<<>>)
                      offer == SelectOffer(offers)
                  IN  IF offer.kind = "obj"
                      THEN [exc |-> NoExc,
                            sd |-> Put(Put(sd2, "price", Get(offer.d, "price")),
                                       "price_currency", Get(offer.d, "priceCurrency"))]
                      ELSE IF offer.kind = "none" THEN [exc |-> NoExc, sd |-> sd2]
                      ELSE [exc |-> Exception("AttributeError", "jsonld"), sd |-> sd2]

\* Lines 77-93.
JsonLd ==
    /\ pc = "jsonld"
    /\ LET r == JsonLdResult(script_tag, scraped_data)
       IN  /\ scraped_data' = r.sd
           /\ exc' = r.exc
           /\ pc' = IF r.exc = NoExc THEN "characteristics" ELSE "finally"
    /\ stderr' = Say(stderr, IF script_tag.present THEN "Found JSON-LD" ELSE "No JSON-LD")
    /\ UNCHANGED <<pageVars, loopVars, domVars, mainVars, driver, ops>>

\* --------------------------------------------------------- characteristics
\* The handler of lines 132-135: the failure is reported and the field is [].
CharacteristicsExcept ==
    /\ scraped_data' = Put(scraped_data, "characteristics", <<>>)
    /\ stderr' = Say(Say(stderr, "Using Selenium"), "Could not extract characteristics")
    /\ pc' = "find_variants"
    /\ characteristics_text' = characteristics_text

\* Lines 95-104: the region is looked up and its text read; a missing region
\* raises NoSuchElementException into the handler of line 132.
ReadCharacteristics ==
    /\ pc = "characteristics"
    /\ ops' = Append(ops, Op("find_characteristics"))
    /\ \/ /\ characteristics_text' \in SampleTexts
          /\ stderr' = Say(Say(stderr, "Using Selenium"), "Characteristics found")
          /\ pc' = "parse_characteristics"
          /\ scraped_data' = scraped_data
       \/ CharacteristicsExcept
    /\ UNCHANGED <<script_tag, lines, variant_selectors, description_images,
                   loopVars, domVars, mainVars, driver, exc>>

\* Lines 106-130 on the text of the region: the lines and the pairs.
ParsedLines(text) == Split(Strip(text))
Remaining(ls) == SubSeq(ls, StartIndex(ls) + 1, Len(ls))

ParseCharacteristics ==
    /\ pc = "parse_characteristics"
    /\ lines' = ParsedLines(characteristics_text)
    /\ LET characteristics_list == Pairs(Remaining(lines'))
           warned == IF HasDangling(Remaining(lines'))
                     THEN Say(stderr, "Characteristic has no value") ELSE stderr
       IN  /\ scraped_data' = Put(scraped_data, "characteristics", characteristics_list)
           /\ stderr' = Say(warned, "Parsed characteristics")
    /\ pc' = "find_variants"
    /\ UNCHANGED <<script_tag, characteristics_text, variant_selectors, description_images,
                   loopVars, domVars, mainVars, driver, exc, ops>>

\* ---------------------------------------------------------- gallery images
\* Where the loop of line 150 goes after iteration k.
AfterVariant(k) == IF k >= Len(variant_selectors) THEN "description" ELSE "click"

\* Lines 137-148: the variant selectors are enumerated.  With none and verbose
\* set, the page source is saved to a file, which may fail.
FindVariants(n) ==
    /\ pc = "find_variants"
    /\ image_urls' = <<>>
    /\ i' = 1
    /\ \/ \E vs \in BoundedSeq(Srcs, n) :
            /\ variant_selectors' = vs
            /\ IF vs = <<>> /\ verbose
               THEN /\ ops' = ops \o <<Op("find_variants"), Op("page_source")>>
                    /\ \/ /\ debug_file' = TRUE
                          /\ stderr' = stderr \o <<"No product variants", "Page HTML saved">>
                          /\ pc' = "description"
                          /\ exc' = exc
                       \/ /\ debug_file' = debug_file
                          /\ stderr' = Append(stderr, "No product variants")
                          /\ Raise("OSError", "debug_file")
               ELSE /\ ops' = Append(ops, Op("find_variants"))
                    /\ debug_file' = debug_file
                    /\ stderr' = IF vs # <<>> THEN Say(stderr, "Found variants") ELSE stderr
                    /\ pc' = IF vs = <<>> THEN "description" ELSE "click"
                    /\ exc' = exc
       \/ /\ ops' = Append(ops, Op("find_variants"))
          /\ Raise("WebDriverException", "find_variants")
          /\ UNCHANGED <<variant_selectors, debug_file, stderr>>
    /\ UNCHANGED <<script_tag, characteristics_text, lines, description_images,
                   gallery_log, domVars, data, stdout, exit_code, verbose, scraped_data,
                   driver>>

\* A mutation: the handler re-raises, so a failing variant aborts the run.
VariantReraise ==
    /\ gallery_log' = Append(gallery_log, [variant |-> i, ok |-> FALSE, shown |-> -1, url |-> ""])
    /\ stderr' = Say(stderr, "Error processing gallery variant")
    /\ i' = i
    /\ Raise("WebDriverException", "variant")
    /\ image_urls' = image_urls

\* The handler of lines 168-170: the failure of one variant is reported and the
\* loop goes on with the next variant.
VariantExcept ==
    /\ gallery_log' = Append(gallery_log, [variant |-> i, ok |-> FALSE, shown |-> -1, url |-> ""])
    /\ stderr' = Say(stderr, "Error processing gallery variant")
    /\ i' = i + 1
    /\ pc' = AfterVariant(i)
    /\ exc' = exc
    /\ image_urls' = image_urls

\* Lines 152-156: the pointer moves to the variant and clicks it, then the
\* run sleeps.  The click asks the page to swap its main image.
ClickVariant ==
    /\ pc = "click"
    /\ ops' = ops \o <<OpOn("click", i), Op("sleep")>>
    /\ pending' = i
    /\ pc' = "wait_image"
    /\ stderr' = Say(stderr, "Clicking variant")
    /\ UNCHANGED <<pageVars, loopVars, displayed, mainVars, scraped_data, driver, exc>>

\* Lines 154-155 raising: the pointer move or the click fails.
ClickVariantFails ==
    /\ pc = "click"
    /\ ops' = Append(ops, OpOn("click", i))
    /\ stderr' = Say(stderr, "Clicking variant")
    /\ VariantExcept
    /\ UNCHANGED <<pageVars, domVars, mainVars, scraped_data, driver>>

\* The browser renders the swap a click asked for, at a time of its own.
BrowserSwap ==
    /\ driver = "live"
    /\ pending # 0
    /\ displayed' = pending
    /\ pending' = 0
    /\ UNCHANGED <<pc, ops, exc, pageVars, loopVars, mainVars, scraped_data, driver, stderr>>

\* Lines 158-162: wait.until(presence of the main image element).  It returns
\* as soon as such an element is in the DOM, whichever image it shows.
WaitImage ==
    /\ pc = "wait_image"
    /\ displayed # -1
    /\ ops' = Append(ops, OpOn("wait_image", i))
    /\ pc' = "read_src"
    /\ UNCHANGED <<pageVars, loopVars, domVars, mainVars, scraped_data, driver, exc, stderr>>

\* Lines 158-162 raising: no main image within the timeout (or the driver fails).
WaitImageFails ==
    /\ pc = "wait_image"
    /\ ops' = Append(ops, OpOn("wait_image", i))
    /\ VariantExcept
    /\ UNCHANGED <<pageVars, domVars, mainVars, scraped_data, driver>>

\* The src attribute of the main image now displayed.
DisplayedSrc == IF displayed = 0 THEN InitialSrc ELSE variant_selectors[displayed]

\* Lines 163-167: the src of the image element is read and kept when not empty.
ReadSrc ==
    /\ pc = "read_src"
    /\ ops' = Append(ops, OpOn("get_src", i))
    /\ LET image_url == DisplayedSrc
       IN  /\ image_urls' = IF Truthy(image_url) THEN Append(image_urls, image_url)
                            ELSE image_urls
           /\ stderr' = IF Truthy(image_url) THEN Say(stderr, "Extracted image URL")
                        ELSE stderr
           /\ gallery_log' = Append(gallery_log, [variant |-> i, ok |-> TRUE,
                                                  shown |-> displayed, url |-> image_url])
    /\ i' = i + 1
    /\ pc' = AfterVariant(i)
    /\ UNCHANGED <<pageVars, domVars, mainVars, scraped_data, driver, exc>>

\* Line 163 raising: the element is stale or the driver fails.
ReadSrcFails ==
    /\ pc = "read_src"
    /\ ops' = Append(ops, OpOn("get_src", i))
    /\ VariantExcept
    /\ UNCHANGED <<pageVars, domVars, mainVars, scraped_data, driver>>

\* ------------------------------------------------------ description images
\* Lines 172-184: the src of every img of the description region is read, in
\* document order, and kept when not empty.  A missing region raises into the
\* handler of line 182 and adds nothing.  (A read that raises after k images
\* leaves the k URLs read, as a region of k images does.)
DescriptionImages(n) ==
    /\ pc = "description"
    /\ ops' = Append(ops, Op("find_description"))
    /\ \/ /\ description_images' = <<>>
          /\ image_urls' = image_urls
          /\ stderr' = Say(stderr, "Could not find description images")
       \/ \E d \in BoundedSeq(Srcs, n) :
            /\ description_images' = d
            /\ image_urls' = image_urls \o SelectSeq(d, Truthy)
            /\ stderr' = IF d # <<>> THEN Say(stderr, "Found description images")
                         ELSE stderr
    /\ pc' = "dedup"
    /\ UNCHANGED <<script_tag, characteristics_text, lines, variant_selectors, i,
                   gallery_log, domVars, mainVars, scraped_data, driver, exc>>

\* Lines 186-192: duplicates are removed and the record is returned.
Return ==
    /\ pc = "dedup"
    /\ scraped_data' = Put(scraped_data, "image_urls", Dedup(image_urls))
    /\ stderr' = Say(stderr, "Total unique images")
    /\ pc' = "finally"
    /\ UNCHANGED <<pageVars, loopVars, domVars, mainVars, driver, exc, ops>>

\* -------------------------------------------------------- finally and main
\* A mutation: the session is released on the normal path only.
ShouldQuitOnSuccess == driver # "None" /\ exc = NoExc

\* Line 195: "if driver".
ShouldQuit == driver # "None"

\* Lines 194-198: the finally clause, on the way out of every path.  quit()
\* itself may raise, which then is the exception that leaves the function.
Finally ==
    /\ pc = "finally"
    /\ IF ShouldQuit
       THEN /\ ops' = Append(ops, Op("quit"))
            /\ driver' = "quit"
            /\ \/ exc' = exc /\ stderr' = Say(stderr, "Scraping finished")
               \/ exc' = Exception("WebDriverException", "quit") /\ stderr' = stderr
       ELSE /\ UNCHANGED <<ops, driver, exc>>
            /\ stderr' = Say(stderr, "Scraping finished")
    /\ pc' = "main_return"
    /\ UNCHANGED <<pageVars, loopVars, domVars, mainVars, scraped_data>>

\* json.dumps(data, ...): one JSON object holding the record.
JsonDumps(d) == [json |-> d]

\* A mutation: the handler reports the error and falls through (no sys.exit).
MainExceptNoExit ==
    /\ stderr' = Append(stderr, "A critical error occurred")
    /\ exit_code' = 0
    /\ UNCHANGED <<data, stdout>>

\* Lines 239-241: the handler of __main__.
MainExcept ==
    /\ stderr' = Append(stderr, "A critical error occurred")
    /\ exit_code' = 1
    /\ UNCHANGED <<data, stdout>>

\* Lines 233-241: __main__ after the call: the record is printed, or the
\* exception is reported; the process ends.
Main ==
    /\ pc = "main_return"
    /\ IF exc = NoExc
       THEN /\ data' = scraped_data
            /\ stdout' = IF DictTruthy(scraped_data)
                         THEN Append(stdout, JsonDumps(scraped_data)) ELSE stdout
            /\ exit_code' = 0
            /\ stderr' = stderr
       ELSE MainExcept
    /\ pc' = "exit"
    /\ UNCHANGED <<pageVars, loopVars, domVars, debug_file, verbose, scraped_data, driver,
                   exc, ops>>

\* ------------------------------------------------------------ specifications
Next ==
    \/ Launch \/ Stealth \/ Navigate \/ Sleep \/ Scroll \/ WaitCharacteristics
    \/ PageSource \/ JsonLd \/ ReadCharacteristics \/ ParseCharacteristics
    \/ FindVariants(MainVariants) \/ ClickVariant \/ ClickVariantFails \/ BrowserSwap
    \/ WaitImage \/ WaitImageFails \/ ReadSrc \/ ReadSrcFails
    \/ DescriptionImages(MainDescImages) \/ Return \/ Finally \/ Main

\* One whole invocation.
Spec == Init /\ [][Next]_vars

\* The state of a run whose page loaded with no failure, at the extraction.
LoadedOps ==
    <<Op("launch"), Op("stealth"), Op("get"), Op("sleep"), Op("scroll"),
      Op("wait_characteristics"), Op("page_source")>>
LoadedStderr ==
    <<"Scraping page", "Loading page", "Scrolling", "Waiting for characteristics",
      "Characteristics present", "Page loaded">>
Loaded ==
    /\ verbose \in BOOLEAN
    /\ driver = "live"
    /\ exc = NoExc
    /\ lines = <<>>
    /\ variant_selectors = <<>>
    /\ i = 1
    /\ pending = 0
    /\ gallery_log = <<>>
    /\ description_images = <<>>
    /\ image_urls = <<>>
    /\ debug_file = FALSE
    /\ data = EmptyDict
    /\ stdout = <<>>
    /\ exit_code = -1

\* The run at line 78, with a structured-data block of the given set.
AtJsonLd(tags) ==
    /\ Loaded
    /\ pc = "jsonld"
    /\ ops = LoadedOps
    /\ stderr = (IF verbose THEN LoadedStderr ELSE <<>>)
    /\ script_tag \in tags
    /\ scraped_data = EmptyDict
    /\ characteristics_text = <<>>
    /\ displayed = 0

\* What a page with no structured-data block adds to the diagnostics.
NoTagStderr == IF verbose THEN Append(LoadedStderr, "No JSON-LD") ELSE <<>>

\* The run at line 106, with the text of the characteristics region read.
AtParseCharacteristics(texts) ==
    /\ Loaded
    /\ pc = "parse_characteristics"
    /\ ops = Append(LoadedOps, Op("find_characteristics"))
    /\ stderr = (IF verbose THEN NoTagStderr \o <<"Using Selenium", "Characteristics found">>
                 ELSE <<>>)
    /\ script_tag = NoTag
    /\ scraped_data = EmptyDict
    /\ characteristics_text \in texts
    /\ displayed = 0

\* The run at line 137, on a page with no structured data and no
\* characteristics region; the page shows its initial main image or none.
AtFindVariants ==
    /\ Loaded
    /\ pc = "find_variants"
    /\ ops = Append(LoadedOps, Op("find_characteristics"))
    /\ stderr = (IF verbose
                 THEN NoTagStderr \o <<"Using Selenium", "Could not extract characteristics">>
                 ELSE <<>>)
    /\ script_tag = NoTag
    /\ scraped_data = ("characteristics" :> <<>>)
    /\ characteristics_text = <<>>
    /\ displayed \in {-1, 0}

\* The structured-data step on every description text up to MaxDescLen.
InitDescription == AtJsonLd(DescriptionTags)
SpecDescription == InitDescription /\ [][JsonLd]_vars

\* The structured-data step on every offers value.
InitOffers == AtJsonLd(OffersTags)
SpecOffers == InitOffers /\ [][JsonLd]_vars

\* The characteristics parser on every text up to MaxTextLen.
InitCharacteristics == AtParseCharacteristics(WideTexts)
SpecCharacteristics == InitCharacteristics /\ [][ParseCharacteristics]_vars

\* Image extraction, from the variant enumeration to the return.
InitImages == AtFindVariants
NextImages ==
    \/ FindVariants(MaxVariants) \/ ClickVariant \/ ClickVariantFails \/ BrowserSwap
    \/ WaitImage \/ WaitImageFails \/ ReadSrc \/ ReadSrcFails
    \/ DescriptionImages(MaxDescImages) \/ Return
SpecImages == InitImages /\ [][NextImages]_vars

\* ------------------------------------------------------------------ claims
Range(q) == {q[k] : k \in 1..Len(q)}
Positions(q, name) == {k \in 1..Len(q) : q[k].op = name}
Returned == pc \in {"main_return", "exit"}

\* C1: when the browser was launched, driver.quit is issued exactly once before
\* control is back in __main__, on the normal path and on every exception
\* path, and nothing is issued to the browser after it.
C1_SessionReleasedOnce ==
    /\ Cardinality(Positions(ops, "quit")) <= 1
    /\ \A k \in Positions(ops, "quit") : k = Len(ops)
    /\ (Returned /\ Positions(ops, "launch") # {} /\ ~(exc.at = "launch"))
         => (Cardinality(Positions(ops, "quit")) = 1 /\ driver = "quit")
    /\ driver = "None" => Positions(ops, "quit") = {}

\* C1's case: an exception of the structured-data parsing left the function
\* and the session was released.
C1_Witness ==
    /\ pc = "main_return"
    /\ exc.at = "jsonld"
    /\ driver = "quit"
    /\ Cardinality(Positions(ops, "quit")) = 1

\* C2: once the page was navigated to, a run in which no browser, file or
\* parsing operation fails returns a record: a source element that is absent
\* raises nothing out of scrape_ozon_product.
C2_AbsenceNeverFails ==
    (Returned /\ Positions(ops, "get") # {} /\ exc # NoExc) => exc.type \in EnvFaults

\* The URLs read by the variants that did not fail, in variant order.
RECURSIVE GalleryUrls(_)
GalleryUrls(log) ==
    IF log = <<>> THEN <<>>
    ELSE (IF log[1].ok /\ log[1].url # "" THEN <<log[1].url>> ELSE <<>>)
         \o GalleryUrls(Tail(log))
\* The non-empty URLs collected: gallery first, then the description images.
Collected ==
    GalleryUrls(gallery_log)
    \o SelectSeq(description_images, LAMBDA u : u # "")
FirstAt(q, u) == CHOOSE k \in 1..Len(q) : q[k] = u /\ \A j \in 1..(k - 1) : q[j] # u
HasRecord == pc = "finally" /\ exc = NoExc /\ "image_urls" \in DOMAIN scraped_data

\* C3: the returned image_urls has no duplicate, holds exactly the non-empty
\* URLs collected (gallery then description), and keeps any two URLs in the
\* order of their first occurrences in that concatenation.
C3_StableDedup ==
    HasRecord =>
        LET out == scraped_data["image_urls"]
        IN  /\ \A a, b \in 1..Len(out) : a # b => out[a] # out[b]
            /\ Range(out) = Range(Collected)
            /\ \A a, b \in 1..Len(out) :
                 a < b => FirstAt(Collected, out[a]) < FirstAt(Collected, out[b])

\* C3's case: a URL seen in the gallery and again in the description is kept
\* once, ahead of a URL seen later.
C3_Witness ==
    /\ HasRecord
    /\ GalleryUrls(gallery_log) = <<"b.jpg", "a.jpg">>
    /\ description_images = <<"b.jpg", "a.jpg">>
    /\ scraped_data["image_urls"] = <<"b.jpg", "a.jpg">>

\* C4: the process ends either with exit status 0 and exactly one JSON object,
\* the record, on standard output, or with a non-zero status, nothing on
\* standard output and a message on the diagnostic stream; standard output
\* never holds anything else, and the browser is launched and the URL
\* navigated to at most once.
C4_ExitContract ==
    /\ pc # "exit" => (exit_code = -1 /\ stdout = <<>>)
    /\ pc = "exit" =>
         \/ exc = NoExc /\ exit_code = 0 /\ stdout = <<JsonDumps(scraped_data)>>
         \/ /\ exc # NoExc
            /\ exit_code # 0
            /\ stdout = <<>>
            /\ stderr # <<>>
            /\ stderr[Len(stderr)] = "A critical error occurred"
    /\ Cardinality(Positions(ops, "launch")) <= 1
    /\ Cardinality(Positions(ops, "get")) <= 1

\* C4's case: the navigation failed and the process ended.
C4_Witness ==
    /\ pc = "exit"
    /\ exc.at = "get"
    /\ exit_code = 1
    /\ stdout = <<>>

\* The offers value of the block, [] when the block has none (line 85).
OffersOf(tag) ==
    IF "offers" \in DOMAIN tag.data THEN tag.data["offers"] ELSE OffersList(<<>>)
JsonLdDone == pc # "jsonld" /\ script_tag.present /\ script_tag.valid

RECURSIVE BreaksEndingAt(_, _)
BreaksEndingAt(s, p) == IF p = 0 \/ s[p] # NL THEN 0 ELSE 1 + BreaksEndingAt(s, p - 1)
\* What position p of s becomes: a character other than a line break stays;
\* the second break of a pair becomes the pair's space; a break with no
\* partner stays.
Collapsed(s, p) ==
    IF s[p] # NL THEN <<s[p]>>
    ELSE IF BreaksEndingAt(s, p) % 2 = 0 THEN <<SP>>
    ELSE IF p < Len(s) /\ s[p + 1] = NL THEN <<>>
    ELSE <<NL>>
RECURSIVE CollapsedUpTo(_, _)
CollapsedUpTo(s, p) == IF p = 0 THEN <<>> ELSE CollapsedUpTo(s, p - 1) \o Collapsed(s, p)
PairsOfBreaks(s) == Cardinality({p \in 1..Len(s) : s[p] = NL /\ BreaksEndingAt(s, p) % 2 = 0})

\* C6: the description of the record is the block's description with every
\* pair of adjacent line breaks, taken left to right, replaced by one space:
\* "A\n\nB" becomes "A B", consecutive pairs give one space each, no two
\* adjacent line breaks remain, and every other character stays in place.
C6_DescriptionCollapsed ==
    (JsonLdDone /\ "description" \in DOMAIN script_tag.data) =>
        LET in == script_tag.data["description"]
            out == scraped_data["description"]
        IN  /\ pc = "characteristics"
            /\ out = CollapsedUpTo(in, Len(in))
            /\ Len(out) = Len(in) - PairsOfBreaks(in)
            /\ \A p \in 1..(Len(out) - 1) : ~(out[p] = NL /\ out[p + 1] = NL)
            /\ in = <<"A", NL, NL, "B">> => out = <<"A", SP, "B">>

\* C6's case: two consecutive pairs of line breaks became two spaces.
C6_Witness ==
    /\ pc = "characteristics"
    /\ script_tag.data["description"] = <<"A", NL, NL, NL, NL>>
    /\ scraped_data["description"] = <<"A", SP, SP>>

\* The lines after the first marker line; all lines when there is none.
MarkerLines(ls) == {k \in 1..Len(ls) : Strip(ls[k]) = <<Marker>>}
AfterMarker(ls) ==
    IF MarkerLines(ls) = {} THEN ls
    ELSE LET first == CHOOSE k \in MarkerLines(ls) : \A j \in MarkerLines(ls) : k <= j
         IN  [k \in 1..(Len(ls) - first) |-> ls[first + k]]

\* C7: the lines up to and including the first marker line are discarded
\* (none when no line is the marker); the n lines that remain give exactly
\* n div 2 pairs, the k-th made of the trimmed lines 2k-1 and 2k, in order; a
\* last unpaired line gives no pair.
C7_CharacteristicsPairs ==
    pc = "find_variants" =>
        LET r == AfterMarker(lines)
            out == scraped_data["characteristics"]
        IN  /\ Len(out) = Len(r) \div 2
            /\ \A k \in 1..Len(out) :
                 out[k] = [name |-> Strip(r[2 * k - 1]), value |-> Strip(r[2 * k])]

\* C7's case: a marker line, one pair after it and a last unpaired line.
C7_Witness ==
    /\ pc = "find_variants"
    /\ characteristics_text = <<Marker, NL, "x", NL, SP, NL, "x">>
    /\ scraped_data["characteristics"] = <<[name |-> <<"x">>, value |-> <<>>]>>

\* C8: when the extraction starts, the page-loading steps were issued once
\* each in the order navigate, sleep, escape key, scroll, bounded wait.
C8_LoadingOrder ==
    pc = "page_source" =>
        SubSeq(ops, 3, Len(ops)) =
            <<Op("get"), Op("sleep"), Op("send_keys"), Op("scroll"),
              Op("wait_characteristics")>>

\* The variants clicked so far, in the order of the clicks.
RECURSIVE Clicked(_)
Clicked(q) ==
    IF q = <<>> THEN <<>>
    ELSE (IF q[1].op = "click" THEN <<q[1].arg>> ELSE <<>>) \o Clicked(Tail(q))
LoopDone == pc \in {"description", "dedup"} \/ HasRecord

\* C9: every variant is attempted exactly once, in document order; a variant
\* whose click-and-read fails adds no URL and never ends the run; the variants
\* after it are still processed and add the URL they read; the description
\* images are collected after the loop and the record is returned.
C9_VariantFailureSkipped ==
    /\ LET clicks == Clicked(ops)
       IN  /\ Len(clicks) <= Len(variant_selectors)
           /\ \A k \in 1..Len(clicks) : clicks[k] = k
    /\ \A k \in 1..Len(gallery_log) : gallery_log[k].variant = k
    /\ exc = NoExc \/ exc.at \in {"find_variants", "debug_file"}
    /\ pc \in {"click", "wait_image", "read_src"} =>
         (i \in 1..Len(variant_selectors) /\ Len(gallery_log) = i - 1)
    /\ (LoopDone /\ exc = NoExc) =>
         /\ Len(gallery_log) = Len(variant_selectors)
         /\ Clicked(ops) = [k \in 1..Len(variant_selectors) |-> k]
    /\ pc \in {"click", "wait_image", "read_src", "description"} =>
         image_urls = GalleryUrls(gallery_log)
    /\ HasRecord => image_urls = Collected

\* C9's case: the first variant failed, the second gave its URL, a description
\* image was added and the record is returned.
C9_Witness ==
    /\ HasRecord
    /\ Len(gallery_log) = 2
    /\ ~gallery_log[1].ok
    /\ gallery_log[2].ok /\ gallery_log[2].shown = 2
    /\ variant_selectors = <<"a.jpg", "b.jpg">>
    /\ description_images = <<"a.jpg">>
    /\ scraped_data["image_urls"] = <<"b.jpg", "a.jpg">>

\* C10: the src kept for a variant is that of the image its own click
\* displays, never the image still shown from before the click.
C10_NoStaleImage ==
    \A k \in 1..Len(gallery_log) :
        gallery_log[k].ok => gallery_log[k].shown = gallery_log[k].variant

====
